---- MODULE Spec2Model ----
(***************************************************************************)
(* Model of the genetic-algorithm engine of hashcode_pizza/genetic.py      *)
(* (Population.evolve / mutate / breed / run / best) and of the driver     *)
(* that calls it (__main__.run).                                           *)
(*                                                                         *)
(* Rates (retain, select, mutate) are the rationals k / RateDen, written   *)
(* as their numerators k \in 0..RateDen.  A draw of random() lies in       *)
(* [0, 1) and is written as a numerator u \in 0..RateDen-1.                *)
(***************************************************************************)
EXTENDS Integers, Sequences, FiniteSets

\* ------------------------------------------------------------- bounds
MaxN == 4          \* population sizes 2..MaxN
MaxGene == 2       \* individuals are the values 0..MaxGene
MaxEpochs == 10    \* run is called with epochs \in 1..MaxEpochs
RateDen == 2       \* rates are k / RateDen, k \in 0..RateDen

\* The divisor of the progress-reporting cadence, epochs // 10.
CadenceDiv == 10

VARIABLES
    individuals,   \* Population.individuals (self.individuals)
    threshold,     \* run's arguments
    epochs,
    retain,
    select,
    mutate,
    e,             \* run's epoch counter
    pc,            \* where the driver / run / evolve / breed stands
    error,         \* the exception that ended run, or "none"
    parents,       \* evolve's and breed's local  parents
    rest,          \* evolve's local  individuals  after the split
    children,      \* breed's local  children
    father,        \* breed's local  father  (-1: not assigned)
    mother,        \* breed's local  mother  (-1: not assigned)
    result,        \* the list evolve returns
    output         \* what the driver wrote: <<best>>, or <<>> before

vars == <<individuals, threshold, epochs, retain, select, mutate,
          e, pc, error, parents, rest, children, father, mother,
          result, output>>

params == <<threshold, epochs, retain, select, mutate>>
locals == <<parents, rest, children, father, mother, result>>

\* ------------------------------------------------------- Individual
Individuals == 0..MaxGene

\* Individual.fitness: a pure function of the individual's state.  The
\* concrete subclass is not part of the engine; here two different
\* individuals may have the same fitness.
Fitness(x) == x \div 2

MaxFitness == Fitness(MaxGene)

\* Individual.mutate(): whatever individual the concrete class produces, as a
\* value of its own (the receiver, a member of self.individuals, is left as
\* it was).
IndividualMutate(x) == Individuals

\* Individual.breed(mother): whatever individual the concrete class produces.
IndividualBreed(f, m) == Individuals

Rates == 0..RateDen
Draws == 0..(RateDen - 1)

\* rate > random()
ChanceInclusive(rate, u) == rate >= u
Chance(rate, u) == rate > u

\* ----------------------------------------------------------- sorted
\* sorted(s, key=fitness, reverse=True) is stable: among equal fitnesses the
\* input order is kept.  SortPermUpTo(s, n) is the order of the indices
\* 1..n of s.
InsertIdx(acc, s, i) ==
    LET c == Cardinality({j \in 1..Len(acc) : Fitness(s[acc[j]]) >= Fitness(s[i])})
    IN  SubSeq(acc, 1, c) \o <<i>> \o SubSeq(acc, c + 1, Len(acc))

RECURSIVE SortPermUpTo(_, _)
SortPermUpTo(s, n) ==
    IF n = 0 THEN <<>> ELSE InsertIdx(SortPermUpTo(s, n - 1), s, n)

SortPerm(s) == SortPermUpTo(s, Len(s))

SortByFitness(s) == LET p == SortPerm(s) IN [i \in 1..Len(s) |-> s[p[i]]]

\* int(len(individuals) * retain)
RetainCountCeil(n, r) == (n * r + RateDen - 1) \div RateDen
RetainCount(n, r) == (n * r) \div RateDen

\* Population.best
Best == individuals[1]

\* ------------------------------------------------------------- Init
\* The population as constructed (any order: nothing sorts it before the
\* first epoch) and the arguments of the call of Population.run.  The
\* arguments are those of any caller; the command-line driver replaces an
\* argument equal to zero by run's default.
NoLocals ==
    /\ parents = <<>>
    /\ rest = <<>>
    /\ children = <<>>
    /\ father = -1
    /\ mother = -1
    /\ result = <<>>

DropLocals ==
    /\ parents' = <<>>
    /\ rest' = <<>>
    /\ children' = <<>>
    /\ father' = -1
    /\ mother' = -1
    /\ result' = <<>>

Init ==
    /\ \E n \in 2..MaxN : individuals \in [1..n -> Individuals]
    /\ threshold \in 1..(MaxFitness + 1)
    /\ epochs \in 1..MaxEpochs
    /\ retain \in Rates
    /\ select \in Rates
    /\ mutate \in Rates
    /\ e = 0
    /\ pc = "constructed"
    /\ error = "none"
    /\ NoLocals
    /\ output = <<>>

\* --------------------------------------------------------------- run
\* What range(0, epochs, 0) raises.
RangeStepError == "ValueError: range() arg 3 must not be zero"

\* What randint(0, -1) raises.
EmptyRangeError == "ValueError: empty range for randrange()"

\* epochs // 10, the step of  range(0, epochs, epochs // 10)
Cadence(n) == n \div CadenceDiv

\* threshold > self.best.fitness and e < epochs
LoopCondition == threshold > Fitness(Best) /\ e < epochs

\* Population.run up to its loop: e = 0 and the reporting range, whose
\* constructor raises ValueError when its step is zero.
Run ==
    /\ pc = "constructed"
    /\ e' = 0
    /\ IF Cadence(epochs) = 0
       THEN /\ pc' = "raised"
            /\ error' = RangeStepError
       ELSE /\ pc' = "loop"
            /\ error' = error
    /\ UNCHANGED <<individuals, params, locals, output>>

\* The while condition is false: run returns.
LoopExit ==
    /\ pc = "loop"
    /\ ~LoopCondition
    /\ pc' = "returned"
    /\ UNCHANGED <<individuals, params, e, error, locals, output>>

\* ------------------------------------------------------------ evolve
\* The while condition is true and evolve is entered: sort, then split into
\* the retained parents and the rest.
EvolveSplitInPlace ==
    /\ pc = "loop"
    /\ LoopCondition
    /\ LET k == RetainCount(Len(individuals), retain)
           sorted == SortByFitness(individuals)
       IN  /\ parents' = SubSeq(sorted, 1, k)
           /\ rest' = SubSeq(sorted, Len(parents') + 1, Len(sorted))
           /\ individuals' = sorted
    /\ pc' = "split"
    /\ UNCHANGED <<params, e, error, children, father, mother,
                   result, output>>

EvolveSplit ==
    /\ pc = "loop"
    /\ LoopCondition
    /\ LET k == RetainCount(Len(individuals), retain)
           sorted == SortByFitness(individuals)
       IN  /\ parents' = SubSeq(sorted, 1, k)
           /\ rest' = SubSeq(sorted, Len(parents') + 1, Len(sorted))
    /\ pc' = "split"
    /\ UNCHANGED <<individuals, params, e, error, children, father, mother,
                   result, output>>

\* The members of s whose trial succeeded, in order.
RECURSIVE Picked(_, _)
Picked(s, trial) ==
    IF s = <<>> THEN <<>>
    ELSE LET n == Len(s)
             front == Picked(SubSeq(s, 1, n - 1), trial)
         IN  IF trial[n] THEN Append(front, s[n]) ELSE front

\* parents += [i for i in individuals if random_select > random()]
EvolveSelect ==
    /\ pc = "split"
    /\ \E u \in [1..Len(rest) -> Draws] :
          LET trial == [i \in 1..Len(rest) |-> Chance(select, u[i])]
          IN  parents' = parents \o Picked(rest, trial)
    /\ pc' = "selected"
    /\ UNCHANGED <<individuals, params, e, error, rest, children, father,
                   mother, result, output>>

MutateChoicesAlways(rate, x) == IndividualMutate(x)

\* What one pass of Population.mutate's comprehension can make of one parent:
\* individual.mutate() if rate > random(), else the parent itself.
MutateChoices(rate, x) ==
    UNION {IF Chance(rate, u) THEN IndividualMutate(x) ELSE {x} : u \in Draws}

\* Population.mutate(mutate, parents), called by evolve.
PopulationMutate ==
    /\ pc = "selected"
    /\ \E c \in [1..Len(parents) -> Individuals] :
          /\ \A i \in 1..Len(parents) : c[i] \in MutateChoices(mutate, parents[i])
          /\ parents' = c
    /\ pc' = "breed"
    /\ UNCHANGED <<individuals, params, e, error, rest, children, father,
                   mother, result, output>>

\* ------------------------------------------------------------- breed
\* range(len(self.individuals) - len(parents)) has another value.
BreedMore == Len(children) < Len(individuals) - Len(parents)

\* randint(0, parents_length - 1); it raises ValueError on an empty range.
RandintRange(n) == 0..(n - 1)

\* One pass of breed's for loop up to the while: father and mother are drawn.
BreedPick ==
    /\ pc = "breed"
    /\ BreedMore
    /\ IF RandintRange(Len(parents)) = {}
       THEN /\ pc' = "raised"
            /\ error' = EmptyRangeError
            /\ DropLocals
       ELSE /\ father' \in RandintRange(Len(parents))
            /\ mother' \in RandintRange(Len(parents))
            /\ pc' = IF mother' = father' THEN "reject" ELSE "pair"
            /\ error' = error
            /\ UNCHANGED <<parents, rest, children, result>>
    /\ UNCHANGED <<individuals, params, e, output>>

\* while mother == father: mother = randint(0, parents_length - 1)
BreedResampleNoReject ==
    /\ pc = "reject"
    /\ mother' \in RandintRange(Len(parents))
    /\ pc' = "pair"
    /\ UNCHANGED <<individuals, params, e, error, parents, rest,
                   children, father, result, output>>

BreedResample ==
    /\ pc = "reject"
    /\ mother' \in RandintRange(Len(parents))
    /\ pc' = IF mother' = father THEN "reject" ELSE "pair"
    /\ UNCHANGED <<individuals, params, e, error, parents, rest,
                   children, father, result, output>>

\* children.append(parents[father].breed(parents[mother]))
BreedCall ==
    /\ pc = "pair"
    /\ \E child \in IndividualBreed(parents[father + 1], parents[mother + 1]) :
          children' = Append(children, child)
    /\ father' = -1
    /\ mother' = -1
    /\ pc' = "breed"
    /\ UNCHANGED <<individuals, params, e, error, parents, rest,
                   result, output>>

\* breed returns; parents += children; evolve returns the sorted list.
EvolveReturnUnsorted ==
    /\ pc = "breed"
    /\ ~BreedMore
    /\ parents' = parents \o children
    /\ result' = parents'
    /\ pc' = "evolved"
    /\ UNCHANGED <<individuals, params, e, error, rest, children,
                   father, mother, output>>

EvolveReturn ==
    /\ pc = "breed"
    /\ ~BreedMore
    /\ parents' = parents \o children
    /\ result' = SortByFitness(parents')
    /\ pc' = "evolved"
    /\ UNCHANGED <<individuals, params, e, error, rest, children,
                   father, mother, output>>

\* self.individuals = <what evolve returned>; e += 1
StoreEpoch ==
    /\ pc = "evolved"
    /\ individuals' = result
    /\ e' = e + 1
    /\ DropLocals
    /\ pc' = "loop"
    /\ UNCHANGED <<params, error, output>>

\* ------------------------------------------------------------ driver
Running == {"loop", "split", "selected", "breed", "reject", "pair", "evolved"}

\* KeyboardInterrupt raised while solution.run(**params) executes; the
\* frames of run, evolve and breed are unwound.
Interrupt ==
    /\ pc \in Running
    /\ pc' = "raised"
    /\ error' = "KeyboardInterrupt"
    /\ DropLocals
    /\ UNCHANGED <<individuals, params, e, output>>

\* The finally block of the driver: solution.best is logged and written,
\* however run ended.
Finally ==
    /\ pc \in {"returned", "raised"}
    /\ output' = <<Best>>
    /\ pc' = "written"
    /\ UNCHANGED <<individuals, params, e, error, locals>>

Step ==
    \/ Run
    \/ LoopExit
    \/ EvolveSplit
    \/ EvolveSelect
    \/ PopulationMutate
    \/ BreedPick
    \/ BreedResample
    \/ BreedCall
    \/ EvolveReturn
    \/ StoreEpoch
    \/ Finally

Next == Step \/ Interrupt

Spec == Init /\ [][Next]_vars

\* ============================================================ claims
IsDescending(s) == \A i \in 1..(Len(s) - 1) : Fitness(s[i]) >= Fitness(s[i + 1])

Count(s, x) == Cardinality({i \in 1..Len(s) : s[i] = x})

\* s and t hold the same individuals, each as many times.
SameMembers(s, t) == \A x \in Individuals : Count(s, x) = Count(t, x)

\* floor(N * retain), stated without the code's arithmetic.
FloorRetain ==
    CHOOSE k \in 0..Len(individuals) :
        /\ k * RateDen <= Len(individuals) * retain
        /\ Len(individuals) * retain < (k + 1) * RateDen

\* The rejection loop of breed with a single parent: no draw differs from
\* the father index, so the loop never ends.
Hung == pc = "reject" /\ Len(parents) = 1

\* ---- C1 --------------------------------------------------------------
\* C1: for every population of size N >= 2 and all rates in [0,1], every
\* outcome of an evolve call is the return of exactly N individuals, so the
\* length of Population.individuals never changes.
C1_EvolveReturnsN ==
    /\ error # EmptyRangeError
    /\ ~Hung
    /\ pc = "evolved" => Len(result) = Len(individuals)

\* ---- C2 --------------------------------------------------------------
\* C2: run terminates within epochs epochs: the epoch counter never exceeds
\* epochs, and every evolve call finishes: wherever the rejection loop of
\* breed stands, a draw exists that leaves it.
C2_RunTerminates ==
    /\ e <= epochs
    /\ pc = "reject" => ENABLED <<BreedResample>>_vars

\* ---- C3 --------------------------------------------------------------
\* C3: an evolve call with retain = 0 and random_select = 0 ends in the
\* InvalidParameter error: it does not fail with an index or empty-range
\* fault, does not loop forever and does not return a population.
C3_EmptyPoolInvalidParameter ==
    (retain = 0 /\ select = 0) =>
        /\ pc # "evolved"
        /\ ~Hung
        /\ error \in {"none", "KeyboardInterrupt", RangeStepError, "InvalidParameter"}

\* ---- C4 --------------------------------------------------------------
\* C4 as stated: best.fitness never decreases from one epoch to the next, so
\* that at the end best is the fittest individual of all populations seen.
C4_BestNeverDecreases ==
    [][Fitness(individuals'[1]) >= Fitness(individuals[1])]_vars

\* C4 as amended: when mutate = 0 and floor(N * retain) >= 1, the best of
\* the population an epoch stores is at least as fit as every member of the
\* population it replaces.
C4_BestKeptWhenRetainedUnmutated ==
    [][(e' = e + 1 /\ mutate = 0 /\ Len(individuals) * retain >= RateDen) =>
          \A i \in 1..Len(individuals) :
              Fitness(individuals'[1]) >= Fitness(individuals[i])]_vars

\* An epoch has been stored with mutate = 0 and a retained parent, and the
\* population holds individuals of different fitness.
C4_Witness ==
    /\ e >= 1
    /\ pc = "loop"
    /\ mutate = 0
    /\ Len(individuals) * retain >= RateDen
    /\ \E i \in 1..Len(individuals) : Fitness(individuals[i]) < Fitness(individuals[1])

\* ---- C5 --------------------------------------------------------------
\* C5: the list an evolve call returns is sorted by descending fitness, and
\* after every epoch of run, individuals is sorted and best (individuals[0])
\* has the maximum fitness of the population.
C5_SortedDescending ==
    /\ pc = "evolved" => IsDescending(result)
    /\ e >= 1 =>
          /\ IsDescending(individuals)
          /\ \A i \in 1..Len(individuals) : Fitness(Best) >= Fitness(individuals[i])

\* evolve has returned a list that the final sort had to reorder.
C5_Witness ==
    /\ pc = "evolved"
    /\ ~IsDescending(parents)
    /\ \E i \in 1..Len(result) : Fitness(result[i]) < Fitness(result[1])

RECURSIVE AtIndices(_, _)
AtIndices(s, S) ==
    IF s = <<>> THEN <<>>
    ELSE LET n == Len(s)
             front == AtIndices(SubSeq(s, 1, n - 1), S \ {n})
         IN  IF n \in S THEN Append(front, s[n]) ELSE front

\* C7: after the split, parents are the first floor(N * retain) individuals
\* of the fitness-descending order of the population and rest are all the
\* others (every individual is in exactly one group); the random_select
\* trials append members of rest, and only of rest, to the retained parents.
C7_RetainSplit ==
    /\ [](pc = "split" =>
            /\ Len(parents) = FloorRetain
            /\ Len(rest) = Len(individuals) - FloorRetain
            /\ IsDescending(parents \o rest)
            /\ SameMembers(parents \o rest, individuals)
            /\ parents \o rest = SortByFitness(individuals))
    /\ [][(pc = "split" /\ pc' = "selected") =>
            \E S \in SUBSET (1..Len(rest)) :
                parents' = parents \o AtIndices(rest, S)]_vars

\* The split has happened with both groups non-empty and individuals of
\* different fitness in the two groups.
C7_Witness ==
    /\ pc = "split"
    /\ Len(parents) >= 1
    /\ Len(rest) >= 1
    /\ Fitness(parents[1]) > Fitness(rest[Len(rest)])
    /\ individuals # parents \o rest

\* ---- C8 --------------------------------------------------------------
\* C8: for every epochs >= 1 the reporting cadence is at least 1 and run
\* reaches its loop without an arithmetic fault.
C8_CadenceAtLeastOne ==
    pc # "constructed" => (Cadence(epochs) >= 1 /\ error # RangeStepError)

\* ---- C9 --------------------------------------------------------------
\* C9: every breed call is made on two different indices of the parent
\* pool, both within 0..len(parents)-1, each call appends one child, and
\* when breed returns it has produced exactly N - len(parents) children.
C9_DistinctParents ==
    /\ [](pc = "pair" =>
            /\ father # mother
            /\ father \in 0..(Len(parents) - 1)
            /\ mother \in 0..(Len(parents) - 1)
            /\ Len(parents) >= 2)
    /\ [][children' # children =>
            \/ children' = <<>>
            \/ pc = "pair" /\ Len(children') = Len(children) + 1]_vars
    /\ [][(pc = "breed" /\ pc' = "evolved") =>
            Len(children) = Len(individuals) - Len(parents)]_vars

\* Two children have been bred from a pool of at least two parents.
C9_Witness ==
    /\ pc = "evolved"
    /\ Len(children) >= 2
    /\ Len(parents) - Len(children) >= 2

\* ---- C10 -------------------------------------------------------------
\* The floor(N * retain) fittest individuals, in order.
Retained == SubSeq(SortByFitness(individuals), 1, FloorRetain)

\* C10: with random_select = 0, mutate = 0 and floor(N * retain) >= 2, the
\* parent pool is exactly the retained individuals, unchanged; every breed
\* call takes two of them; evolve returns them plus N - floor(N * retain)
\* children, N individuals in all, sorted by descending fitness.
C10_ElitistEpoch ==
    (select = 0 /\ mutate = 0 /\ FloorRetain >= 2) =>
        /\ pc \in {"selected", "breed", "reject", "pair"} => parents = Retained
        /\ pc = "pair" =>
              /\ father \in 0..(FloorRetain - 1)
              /\ mother \in 0..(FloorRetain - 1)
              /\ father # mother
        /\ pc = "evolved" =>
              /\ parents = Retained \o children
              /\ Len(children) = Len(individuals) - FloorRetain
              /\ SameMembers(result, Retained \o children)
              /\ Len(result) = Len(individuals)
              /\ IsDescending(result)

\* Such an evolve call has returned with children bred from the retained
\* pair, the population holding individuals of different fitness.
C10_Witness ==
    /\ pc = "evolved"
    /\ select = 0
    /\ mutate = 0
    /\ FloorRetain >= 2
    /\ Len(children) >= 1
    /\ Fitness(individuals[Len(individuals)]) > Fitness(individuals[1])

====
